---- MODULE Spec2Model ----
(***************************************************************************)
(* The main loop of the nil language server (crates/nil/src/state.rs), its *)
(* request and notification dispatchers, the feature handlers              *)
(* (crates/nil/src/handler.rs) and the inputs of the source database       *)
(* (crates/ide/src/base.rs).                                               *)
(***************************************************************************)
EXTENDS Integers, Sequences, FiniteSets, TLC

VARIABLES
    pc,            \* position of State::run: "start", "loop", "sent", "ok", "err", "panic"
    is_shutdown,   \* State.is_shutdown
    vfs,           \* State.vfs
    opened_files,  \* State.opened_files
    host,          \* State.host: the inputs of the source database
    req_queue,     \* State.req_queue.outgoing
    config,        \* State.config
    sent,          \* messages put on State.sender while the last message was handled
    last,          \* the last inbound message and what its handler met
    unit,          \* the value of crates/ide a library specification acts on
    call           \* the last operation applied to unit: its name, arguments and result

vars == <<pc, is_shutdown, vfs, opened_files, host, req_queue, config, sent, last, unit, call>>

(***************************** bounds ***************************************)
\* longest file text
MaxTextLen == 1
\* outgoing requests the server registers in one run
MaxOutgoing == 1
\* longest list diagnostics(file) returns
MaxDiags == 130
\* content-change entries in one didChange notification
MaxChanges == 2

MAX_DIAGNOSTICS_CNT == 128

Chars == {"a"}
Texts == UNION {[1..n -> Chars] : n \in 0..MaxTextLen}
InUris == {"u1", "u2"}
OutUri == "out"
Uris == InUris \cup {OutUri}
RequestIds == {1, 2}
PanicLocations == {"ide/src/def.rs:7:5"}

\* Option<T>: None is the empty tuple, Some(x) the one-element tuple
None == <<>>
Some(x) == <<x>>
Unwrap(o) == o[1]
EmptyFn == [x \in {} |-> None]
Put(f, k, v) == [x \in (DOMAIN f) \cup {k} |-> IF x = k THEN v ELSE f[x]]
Del(f, k) == [x \in (DOMAIN f) \ {k} |-> f[x]]
\* let x = e in F(x)
Bind(e, F(_)) == F(e)
\* iter().rev()
Reverse(seq) == [i \in 1..Len(seq) |-> seq[Len(seq) + 1 - i]]

(****************** crates/ide/src/base.rs: VfsPath *************************)
\* a String is the sequence of its characters
ends_with(s, c) == Len(s) > 0 /\ s[Len(s)] = c
starts_with(s, c) == Len(s) > 0 /\ s[1] = c
contains(s, c) == \E i \in 1..Len(s) : s[i] = c
\* s.as_bytes().windows(2).any(|w| w == b"//")
any_double_slash(s) == \E i \in 1..(Len(s) - 1) : s[i] = "/" /\ s[i + 1] = "/"

VfsPath_root == <<>>

\* VfsPath::new with the leading slash left as given
VfsPath_new_as_given(s) ==
    IF s = <<>> \/ s = <<"/">> THEN Some(VfsPath_root)
    ELSE IF ends_with(s, "/") \/ any_double_slash(s) THEN None
    ELSE Some(s)

VfsPath_new(s) ==
    IF s = <<>> \/ s = <<"/">> THEN Some(VfsPath_root)
    ELSE IF ends_with(s, "/") \/ any_double_slash(s) THEN None
    ELSE Some(IF ~starts_with(s, "/") THEN <<"/">> \o s ELSE s)

VfsPath_push(self, relative) == self \o relative

\* the path left in self, and the Option<()> returned
VfsPath_push_segment(self, segment) ==
    IF ~contains(segment, "/")
    THEN [self |-> self \o <<"/">> \o segment, ret |-> Some(<<>>)]
    ELSE [self |-> self, ret |-> None]

\* the index of the last '/' of s, 0 if there is none: rsplit_once('/')
rsplit_at(s) ==
    IF contains(s, "/")
    THEN CHOOSE i \in 1..Len(s) : s[i] = "/" /\ \A j \in (i + 1)..Len(s) : s[j] # "/"
    ELSE 0

VfsPath_pop(self) ==
    IF rsplit_at(self) = 0 THEN [self |-> self, ret |-> None]
    ELSE [self |-> SubSeq(self, 1, rsplit_at(self) - 1), ret |-> Some(<<>>)]

(****************** crates/ide/src/base.rs: FileSet *************************)
EmptyFileSet == [files |-> EmptyFn, paths |-> EmptyFn]

FileSet_insert(fs, file, path) ==
    [files |-> Put(fs.files, path, file), paths |-> Put(fs.paths, file, path)]

FileSet_remove_file(fs, file) ==
    IF file \in DOMAIN fs.paths
    THEN [files |-> Del(fs.files, fs.paths[file]), paths |-> Del(fs.paths, file)]
    ELSE fs

FileSet_file_for_path(fs, path) ==
    IF path \in DOMAIN fs.files THEN Some(fs.files[path]) ELSE None

FileSet_path_for_file(fs, file) == fs.paths[file]

SourceRoot_new_local(file_set, entry) == [file_set |-> file_set, entry |-> entry]

(****************** crates/ide/src/base.rs: Change **************************)
Change_new == [roots |-> None, file_changes |-> <<>>]

\* is_empty looking at the file changes only
Change_is_empty_ignores_roots(change) == change.file_changes = <<>>

Change_is_empty(change) == change.roots = None /\ change.file_changes = <<>>

Change_set_roots(change, roots) == [change EXCEPT !.roots = Some(roots)]

Change_change_file(change, file_id, content) ==
    [change EXCEPT !.file_changes = Append(@, <<file_id, content>>)]

EmptyDb == [file_content |-> EmptyFn, source_root |-> EmptyFn, file_source_root |-> EmptyFn]

RECURSIVE ApplyRoots(_, _, _)
ApplyRoots(db, roots, i) ==
    IF i > Len(roots) THEN db
    ELSE LET sid == i - 1
             root == roots[i]
             fsr == [f \in (DOMAIN db.file_source_root) \cup (DOMAIN root.file_set.paths) |->
                        IF f \in DOMAIN root.file_set.paths THEN sid
                        ELSE db.file_source_root[f]]
         IN ApplyRoots([db EXCEPT !.file_source_root = fsr,
                                  !.source_root = Put(@, sid, root)], roots, i + 1)

RECURSIVE ApplyFileChanges(_, _, _)
ApplyFileChanges(db, file_changes, i) ==
    IF i > Len(file_changes) THEN db
    ELSE ApplyFileChanges(
            [db EXCEPT !.file_content = Put(@, file_changes[i][1], file_changes[i][2])],
            file_changes, i + 1)

\* the set_*_with_durability calls apply makes for roots[i..], each of which
\* starts a new revision of the database
RECURSIVE RootWrites(_, _)
RootWrites(roots, i) ==
    IF i > Len(roots) THEN 0
    ELSE Cardinality(DOMAIN roots[i].file_set.paths) + 1 + RootWrites(roots, i + 1)

Change_apply_writes(change) ==
    (IF change.roots # None THEN RootWrites(Unwrap(change.roots), 1) ELSE 0)
    + Len(change.file_changes)

\* apply with the file changes written from the last to the first
Change_apply_reversed(change, db) ==
    LET db1 == IF change.roots # None THEN ApplyRoots(db, Unwrap(change.roots), 1) ELSE db
    IN ApplyFileChanges(db1, Reverse(change.file_changes), 1)

Change_apply(change, db) ==
    LET db1 == IF change.roots # None THEN ApplyRoots(db, Unwrap(change.roots), 1) ELSE db
    IN ApplyFileChanges(db1, change.file_changes, 1)

(****************** crates/ide/src/diagnostic.rs ****************************)
\* a DiagnosticKind is <<variant>>, or <<"SyntaxError", kind>> with the
\* syntax::ErrorKind, itself followed by the token for MissingToken
SynErrorKinds ==
    {<<"MultipleRoots">>, <<"PathTrailingSlash">>, <<"PathDuplicatedSlashes">>,
     <<"MultipleNoAssoc">>, <<"MissingToken", "T![;]">>, <<"MissingToken", "T![=]">>,
     <<"MissingExpr">>, <<"MissingElemExpr">>, <<"MissingAttr">>, <<"MissingParamIdent">>,
     <<"MissingBinding">>, <<"NestTooDeep">>}

DiagnosticKinds ==
    {<<"SyntaxError">> \o k : k \in SynErrorKinds}
    \cup {<<"InvalidDynamic">>, <<"DuplicatedKey">>, <<"EmptyInherit">>, <<"EmptyLetIn">>,
          <<"LetAttrset">>, <<"UriLiteral">>, <<"MergePlainRecAttrset">>,
          <<"MergeRecAttrset">>, <<"UndefinedName">>, <<"UnusedBinding">>,
          <<"UnusedWith">>, <<"UnusedRec">>}

Diagnostic_new(range, kind) == [range |-> range, kind |-> kind, notes |-> <<>>]

Diagnostic_with_note(self, frange, message) ==
    [self EXCEPT !.notes = Append(@, <<frange, message>>)]

\* severity with every syntax error taken for an Error
Diagnostic_severity_syntax_is_error(self) ==
    IF self.kind[1] \in {"InvalidDynamic", "DuplicatedKey", "UndefinedName", "SyntaxError"}
    THEN "Error" ELSE "Warning"

Diagnostic_severity(self) ==
    CASE self.kind[1] \in {"InvalidDynamic", "DuplicatedKey", "UndefinedName"} -> "Error"
      [] self.kind[1] \in {"EmptyInherit", "EmptyLetIn", "LetAttrset", "UriLiteral",
                           "MergePlainRecAttrset", "MergeRecAttrset", "UnusedBinding",
                           "UnusedWith", "UnusedRec"} -> "Warning"
      [] self.kind[1] = "SyntaxError" ->
            CASE self.kind[2] \in {"MultipleRoots", "PathTrailingSlash",
                                   "PathDuplicatedSlashes", "MultipleNoAssoc"} -> "Error"
              [] self.kind[2] \in {"MissingToken", "MissingExpr", "MissingElemExpr",
                                   "MissingAttr", "MissingParamIdent", "MissingBinding",
                                   "NestTooDeep"} -> "IncompleteSyntax"

Diagnostic_is_unnecessary(self) ==
    self.kind[1] \in {"EmptyInherit", "UnusedBinding", "UnusedWith", "UnusedRec"}

Diagnostic_is_deprecated(self) == self.kind[1] \in {"LetAttrset", "UriLiteral"}

(****************** crates/nil/src/vfs.rs: Vfs ******************************)
\* Result<T>: [ok |-> TRUE, val |-> v] or [ok |-> FALSE, err |-> e]
Ok(v) == [ok |-> TRUE, val |-> v]
Err(e) == [ok |-> FALSE, err |-> e]
\* an error value and its Display (to_string), a text in pieces
Error(kind) == [kind |-> kind, msg |-> <<kind>>]
ErrorMessage(msg) == [kind |-> "Message", msg |-> msg]
to_string(err) == err.msg

Vfs_new ==
    [files |-> <<>>, local_file_set |-> EmptyFileSet, root_changed |-> FALSE,
     change |-> Change_new]

\* FileId(n) is the n-th file allocated, counted from 0; its text is files[n + 1]
Vfs_set_path_content(v, path, text) ==
    LET found == FileSet_file_for_path(v.local_file_set, path)
    IN IF found # None
       THEN [v EXCEPT !.files[Unwrap(found) + 1] = text,
                      !.change = Change_change_file(@, Unwrap(found), text)]
       ELSE LET file == Len(v.files)
            IN [v EXCEPT !.local_file_set = FileSet_insert(@, file, path),
                         !.root_changed = TRUE,
                         !.files = Append(@, text),
                         !.change = Change_change_file(@, file, text)]

Vfs_uri_to_vpath(uri) ==
    IF uri \in InUris THEN Ok(<<"/", uri>>) ELSE Err(Error("UriOutsideWorkspace"))

Vfs_vpath_to_uri(path) == path[2]

Vfs_set_uri_content(v, uri, text) ==
    LET vpath == Vfs_uri_to_vpath(uri)
    IN IF vpath.ok THEN Ok(Vfs_set_path_content(v, vpath.val, text)) ELSE vpath

Vfs_file_for_uri(v, uri) ==
    Bind(Vfs_uri_to_vpath(uri), LAMBDA vpath :
        IF ~vpath.ok THEN vpath
        ELSE Bind(FileSet_file_for_path(v.local_file_set, vpath.val), LAMBDA found :
                IF found # None THEN Ok(Unwrap(found)) ELSE Err(Error("FileNotFound"))))

Vfs_uri_for_file(v, file) ==
    Vfs_vpath_to_uri(FileSet_path_for_file(v.local_file_set, file))

Vfs_text_for_file(v, file) == v.files[file + 1]

\* a TextRange is <<start, end>>
Vfs_change_file_content(v, file, range, text) ==
    LET old == v.files[file + 1]
    IN IF range[1] > range[2] \/ range[2] > Len(old)
       THEN Err(Error("RangeOutOfBounds"))
       ELSE LET new == SubSeq(old, 1, range[1]) \o text \o SubSeq(old, range[2] + 1, Len(old))
            IN Ok([v EXCEPT !.files[file + 1] = new,
                            !.change = Change_change_file(@, file, new)])

\* the taken change, and the Vfs left behind
Vfs_take_change(v) ==
    LET roots == <<SourceRoot_new_local(v.local_file_set, None)>>
    IN [change |-> IF v.root_changed THEN Change_set_roots(v.change, roots) ELSE v.change,
        vfs |-> [v EXCEPT !.change = Change_new, !.root_changed = FALSE]]

(****************** crates/nil/src/convert.rs *******************************)
\* an LSP position is [line, character]; the texts of the model have one line
convert_from_pos(text, pos) ==
    IF pos.line = 0 /\ pos.character <= Len(text)
    THEN Ok(pos.character) ELSE Err(Error("PositionOutOfBounds"))

convert_from_file(v, uri) == Vfs_file_for_uri(v, uri)

convert_from_file_pos(v, params) ==
    Bind(convert_from_file(v, params.uri), LAMBDA file :
        IF ~file.ok THEN file
        ELSE Bind(convert_from_pos(Vfs_text_for_file(v, file.val), params.position),
                  LAMBDA pos :
                    IF pos.ok THEN Ok([file_id |-> file.val, pos |-> pos.val]) ELSE pos))

\* an LSP range is [start, end], both positions
convert_from_range(v, file, range) ==
    LET s == convert_from_pos(Vfs_text_for_file(v, file), range.start)
        e == convert_from_pos(Vfs_text_for_file(v, file), range.end)
    IN IF ~s.ok THEN s
       ELSE IF ~e.ok THEN e
       ELSE IF s.val > e.val THEN Err(Error("InvalidRange"))
       ELSE Ok(<<s.val, e.val>>)

\* a TextRange of a one-line text as an LSP range
convert_to_range(range) ==
    [start |-> [line |-> 0, character |-> range[1]],
     end |-> [line |-> 0, character |-> range[2]]]

convert_to_diagnostics(diags) == [i \in 1..Len(diags) |-> [lsp |-> "Diagnostic", of |-> diags[i]]]

(****************** lsp_server messages *************************************)
Response_new_ok(id, result) ==
    [type |-> "Response", id |-> id, result |-> Some(result), error |-> None]

Response_new_err(id, code, message) ==
    [type |-> "Response", id |-> id, result |-> None,
     error |-> Some([code |-> code, message |-> message])]

Notification_new(method, params) ==
    [type |-> "Notification", method |-> method, params |-> params]

Request_new(id, method, params) ==
    [type |-> "Request", id |-> id, method |-> method, params |-> params]

\* serde_json::Value
JsonNull == [json |-> "null"]
JsonArray(items) == [json |-> "array", items |-> items]
JsonObject == [json |-> "object"]

\* serde_json::from_value on the params of an inbound message
Decodes(v) == [decodes |-> TRUE, val |-> v]
Undecodable == [decodes |-> FALSE]
serde_from_value(params) ==
    IF params.decodes THEN Ok(params.val) ELSE Err(Error("invalid type"))

(****************** crates/nil/src/handler.rs *******************************)
\* What the analysis behind a handler answers: "none" and "some" are its
\* Option result, "cancelled" is Err(Cancelled), "rename_err" the rename error.
Cancelled == Error("Cancelled")

goto_definition(v, params, ana) ==
    Bind(convert_from_file_pos(v, params), LAMBDA fpos :
        IF ~fpos.ok THEN fpos
        ELSE IF ana = "cancelled" THEN Err(Cancelled)
        ELSE IF ana = "none" THEN Ok(None)
        ELSE Ok(Some(<<"GotoDefinitionResponse", fpos.val>>)))

references(v, params, ana) ==
    Bind(convert_from_file_pos(v, params), LAMBDA fpos :
        IF ~fpos.ok THEN fpos
        ELSE IF ana = "cancelled" THEN Err(Cancelled)
        ELSE IF ana = "none" THEN Ok(None)
        ELSE Ok(Some(<<"Locations", fpos.val>>)))

completion(v, params, ana) ==
    Bind(convert_from_file_pos(v, params), LAMBDA fpos :
        IF ~fpos.ok THEN fpos
        ELSE IF ana = "cancelled" THEN Err(Cancelled)
        ELSE IF ana = "none" THEN Ok(None)
        ELSE Ok(Some(<<"CompletionResponse", fpos.val>>)))

TextRange_empty(pos) == <<pos, pos>>

\* lines 85-90: each range before the last, from the back, becomes the parent's child
RECURSIVE wrap_parents(_, _, _)
wrap_parents(ret, rest, i) ==
    IF i > Len(rest) THEN ret
    ELSE wrap_parents([range |-> convert_to_range(rest[i]), parent |-> Some(ret)], rest, i + 1)

\* the chain built from the front: its head is the last range wrapped
SelectionRange_chain_from_front(ranges) ==
    wrap_parents([range |-> convert_to_range(ranges[1]), parent |-> None], Tail(ranges), 1)

\* lines 81-90: the chain for a non-empty list of ranges
SelectionRange_chain(ranges) ==
    wrap_parents([range |-> convert_to_range(ranges[Len(ranges)]), parent |-> None],
                 Tail(Reverse(ranges)), 1)

\* lines 76-79: the ranges of expand_selection, or the empty range at pos
ranges_or_empty(expanded, pos) ==
    IF expanded = None \/ Unwrap(expanded) = <<>>
    THEN <<TextRange_empty(pos)>>
    ELSE Unwrap(expanded)

\* ana[pos] is what Analysis::expand_selection answers for the empty range at
\* pos: Err(Cancelled) or Ok of an Option<Vec<TextRange>>
RECURSIVE selection_range_positions(_, _, _, _, _)
selection_range_positions(text, file, positions, ana, i) ==
    IF i > Len(positions) THEN Ok(<<>>)
    ELSE Bind(convert_from_pos(text, positions[i]), LAMBDA pos :
            IF ~pos.ok THEN pos
            ELSE IF ~ana[pos.val].ok THEN ana[pos.val]
            ELSE Bind(selection_range_positions(text, file, positions, ana, i + 1),
                      LAMBDA rest :
                        IF ~rest.ok THEN rest
                        ELSE Ok(<<SelectionRange_chain(
                                    ranges_or_empty(ana[pos.val].val, pos.val))>>
                                \o rest.val)))

selection_range(v, params, ana) ==
    Bind(convert_from_file(v, params.uri), LAMBDA file :
        IF ~file.ok THEN file
        ELSE Bind(selection_range_positions(Vfs_text_for_file(v, file.val), file.val,
                                            params.positions, ana, 1),
                  LAMBDA ret : IF ~ret.ok THEN ret ELSE Ok(Some(ret.val))))

prepare_rename(v, params, ana) ==
    Bind(convert_from_file_pos(v, params), LAMBDA fpos :
        IF ~fpos.ok THEN fpos
        ELSE IF ana = "cancelled" THEN Err(Cancelled)
        ELSE IF ana = "rename_err" THEN Err(Error("RenameError"))
        ELSE Ok(Some(<<"PrepareRenameResponse", fpos.val>>)))

rename(v, params, ana) ==
    Bind(convert_from_file_pos(v, params), LAMBDA fpos :
        IF ~fpos.ok THEN fpos
        ELSE IF ana = "cancelled" THEN Err(Cancelled)
        ELSE IF ana = "rename_err" THEN Err(Error("RenameError"))
        ELSE Ok(Some(<<"WorkspaceEdit", fpos.val>>)))

semantic_token_full(v, params, ana) ==
    Bind(convert_from_file(v, params.uri), LAMBDA file :
        IF ~file.ok THEN file
        ELSE IF ana = "cancelled" THEN Err(Cancelled)
        ELSE Ok(Some(<<"SemanticTokens", file.val>>)))

semantic_token_range(v, params, ana) ==
    Bind(convert_from_file(v, params.uri), LAMBDA file :
        IF ~file.ok THEN file
        ELSE Bind(convert_from_range(v, file.val, params.range), LAMBDA range :
                IF ~range.ok THEN range
                ELSE IF ana = "cancelled" THEN Err(Cancelled)
                ELSE Ok(Some(<<"SemanticTokens", file.val, range.val>>))))

hover(v, params, ana) ==
    Bind(convert_from_file_pos(v, params), LAMBDA fpos :
        IF ~fpos.ok THEN fpos
        ELSE IF ana = "cancelled" THEN Err(Cancelled)
        ELSE IF ana = "none" THEN Ok(None)
        ELSE Ok(Some(<<"Hover", fpos.val>>)))

(****************** crates/nil/src/state.rs *********************************)
\* State as a value: the fields of the struct, the messages put on `sender`
\* (out), the calls of Analysis::diagnostics made (diag), what each
\* publication was computed from (pub), the changes applied to the host
\* (applied) and the ids whose response callback ran (called), in order.
Config_default == [options |-> {}]

StateNow ==
    [is_shutdown |-> is_shutdown, vfs |-> vfs, opened_files |-> opened_files,
     host |-> host, req_queue |-> req_queue, config |-> config, out |-> <<>>, diag |-> <<>>,
     pub |-> <<>>, applied |-> <<>>, called |-> <<>>]

State_new ==
    [is_shutdown |-> FALSE, vfs |-> Vfs_new, opened_files |-> {},
     host |-> EmptyDb, req_queue |-> [next_id |-> 0, pending |-> EmptyFn],
     config |-> Config_default, out |-> <<>>, diag |-> <<>>, pub |-> <<>>, applied |-> <<>>,
     called |-> <<>>]

sender_send(st, msg) == [st EXCEPT !.out = Append(@, msg)]

send_notification(st, method, params) == sender_send(st, Notification_new(method, params))

send_request(st, method, params, callback) ==
    LET id == st.req_queue.next_id
        st1 == [st EXCEPT !.req_queue = [next_id |-> id + 1,
                                         pending |-> Put(@.pending, id, callback)]]
    IN sender_send(st1, Request_new(id, method, params))

\* update_config keeping the value it is given
update_config_stored(st, _config) == [st EXCEPT !.config = _config]

update_config(st, _config) == st

\* the callback registered for workspace/configuration
config_callback(st, resp) ==
    LET ret == IF resp.error = None
               THEN Ok(IF resp.result # None /\ Unwrap(resp.result).json = "array"
                          /\ Len(Unwrap(resp.result).items) > 0
                       THEN Unwrap(resp.result).items[1] ELSE JsonNull)
               ELSE Err(ErrorMessage(<<"LSP error">>))
    IN IF ret.ok
       THEN update_config([st EXCEPT !.called = Append(@, resp.id)], ret.val)
       ELSE [st EXCEPT !.called = Append(@, resp.id)]

State_snapshot(st) == [analysis |-> st.host, vfs |-> st.vfs]

Min(a, b) == IF a < b THEN a ELSE b
\* Vec::truncate without its cut
Vec_truncate_keeps_all(v, len) == v

Vec_truncate(v, len) == SubSeq(v, 1, Min(Len(v), len))

\* the list published with the query made whether or not the entry has text
published_diagnostics_always_queried(has_text, dres) ==
    IF dres.ok
    THEN convert_to_diagnostics(Vec_truncate(dres.val, MAX_DIAGNOSTICS_CNT))
    ELSE <<>>

\* lines 251-258: the list published for a changed file; dres is what
\* Analysis::diagnostics answers on the snapshot, Ok(list) or Err(Cancelled)
published_diagnostics(has_text, dres) ==
    IF has_text /\ dres.ok
    THEN convert_to_diagnostics(Vec_truncate(dres.val, MAX_DIAGNOSTICS_CNT))
    ELSE <<>>

\* the notifications sent walking the changed files from the last to the first
publish_diagnostics_reversed(st, file_changes, dres) ==
    Bind(Reverse(SelectSeq(file_changes,
                           LAMBDA fc : Vfs_uri_for_file(st.vfs, fc[1]) \in st.opened_files)),
         LAMBDA published :
            [st EXCEPT
                !.out = @ \o [i \in 1..Len(published) |->
                            Notification_new("textDocument/publishDiagnostics",
                                [uri |-> Vfs_uri_for_file(st.vfs, published[i][1]),
                                 diagnostics |-> published_diagnostics(published[i][2], dres),
                                 version |-> None])],
                !.diag = @ \o [i \in 1..Len(published) |->
                            IF published[i][2] THEN Some(dres) ELSE None],
                !.pub = @ \o [i \in 1..Len(published) |->
                            [file |-> published[i][1], has_text |-> published[i][2],
                             content |-> st.host.file_content[published[i][1]]]]])

\* publish_diagnostics without the test of the opened files
publish_diagnostics_unfiltered(st, file_changes, dres) ==
    [st EXCEPT
        !.out = @ \o [i \in 1..Len(file_changes) |->
                    Notification_new("textDocument/publishDiagnostics",
                        [uri |-> Vfs_uri_for_file(st.vfs, file_changes[i][1]),
                         diagnostics |-> published_diagnostics(file_changes[i][2], dres),
                         version |-> None])],
        !.diag = @ \o [i \in 1..Len(file_changes) |->
                    IF file_changes[i][2] THEN Some(dres) ELSE None],
        !.pub = @ \o [i \in 1..Len(file_changes) |->
                    [file |-> file_changes[i][1], has_text |-> file_changes[i][2],
                     content |-> st.host.file_content[file_changes[i][1]]]]]

\* lines 244-264: one notification for each changed file that is opened
publish_diagnostics(st, file_changes, dres) ==
    Bind(SelectSeq(file_changes, LAMBDA fc : Vfs_uri_for_file(st.vfs, fc[1]) \in st.opened_files),
         LAMBDA published :
            [st EXCEPT
                !.out = @ \o [i \in 1..Len(published) |->
                            Notification_new("textDocument/publishDiagnostics",
                                [uri |-> Vfs_uri_for_file(st.vfs, published[i][1]),
                                 diagnostics |-> published_diagnostics(published[i][2], dres),
                                 version |-> None])],
                !.diag = @ \o [i \in 1..Len(published) |->
                            IF published[i][2] THEN Some(dres) ELSE None],
                !.pub = @ \o [i \in 1..Len(published) |->
                            [file |-> published[i][1], has_text |-> published[i][2],
                             content |-> st.host.file_content[published[i][1]]]]])

apply_vfs_change(st, dres) ==
    Bind(Vfs_take_change(st.vfs), LAMBDA taken :
        publish_diagnostics(
            [st EXCEPT !.vfs = taken.vfs, !.host = Change_apply(taken.change, @),
                       !.applied = Append(@, taken.change)],
            [i \in 1..Len(taken.change.file_changes) |->
                <<taken.change.file_changes[i][1], taken.change.file_changes[i][2] # <<>> >>],
            dres))

\* set_vfs_file_content leaving the change in the Vfs
set_vfs_file_content_unapplied(st, uri, text, dres) ==
    Bind(Vfs_set_uri_content(st.vfs, uri, text), LAMBDA r :
        IF ~r.ok THEN [st |-> st, ret |-> r]
        ELSE [st |-> [st EXCEPT !.vfs = r.val], ret |-> Ok(None)])

set_vfs_file_content(st, uri, text, dres) ==
    Bind(Vfs_set_uri_content(st.vfs, uri, text), LAMBDA r :
        IF ~r.ok THEN [st |-> st, ret |-> r]
        ELSE [st |-> apply_vfs_change([st EXCEPT !.vfs = r.val], dres), ret |-> Ok(None)])

\* a handler's run: it returns ret, or panics at location with payload
Returned(ret) == [panicked |-> FALSE, ret |-> ret]
Panicked(location, payload) == [panicked |-> TRUE, location |-> location, payload |-> payload]

\* the handler's panic caught with the location the hook stored left unread
with_catch_unwind_location_lost(ctx, run) ==
    IF ~run.panicked THEN run.ret
    ELSE Err(ErrorMessage(<<"Request handler of ", ctx, " panicked at ", "unknown", ": ",
                            run.payload>>))

with_catch_unwind(ctx, run) ==
    IF ~run.panicked THEN run.ret
    ELSE LET reason == run.payload
             loc == IF run.location = "" THEN "unknown" ELSE run.location
         IN Err(ErrorMessage(<<"Request handler of ", ctx, " panicked at ", loc, ": ", reason>>))

result_to_response(id, ret) ==
    IF ret.ok THEN Ok(Response_new_ok(id, ret.val))
    ELSE IF ret.err.kind = Cancelled.kind THEN Err(ret.err)
    ELSE Ok(Response_new_err(id, "InternalError", to_string(ret.err)))

(****************** RequestDispatcher ***************************************)
\* (state, the request not yet taken); ran and snaps record the handler's run
\* and the snapshots taken
RequestDispatcher(st, req) == [st |-> st, req |-> Some(req), ran |-> None, snaps |-> 0]

shutdown_handler(st, params) == [st |-> [st EXCEPT !.is_shutdown = TRUE], ret |-> Ok(None)]

\* the fn(&mut State, R::Params) registered for METHOD; it answers [st, ret]
sync_mut_handler(METHOD, st, params) == shutdown_handler(st, params)

\* the fn(StateSnapshot, R::Params) registered for METHOD; v is the Vfs of the
\* snapshot, ana what its analysis answers
feature_handler(METHOD, v, params, ana) ==
    CASE METHOD = "textDocument/definition" -> goto_definition(v, params, ana)
      [] METHOD = "textDocument/references" -> references(v, params, ana)
      [] METHOD = "textDocument/completion" -> completion(v, params, ana)
      [] METHOD = "textDocument/selectionRange" -> selection_range(v, params, ana)
      [] METHOD = "textDocument/prepareRename" -> prepare_rename(v, params, ana)
      [] METHOD = "textDocument/rename" -> rename(v, params, ana)
      [] METHOD = "textDocument/semanticTokens/full" -> semantic_token_full(v, params, ana)
      [] METHOD = "textDocument/semanticTokens/range" -> semantic_token_range(v, params, ana)
      [] METHOD = "textDocument/hover" -> hover(v, params, ana)

\* the response sent with the answered request left in the dispatcher
RequestDispatcher_respond_untaken(st, ret, ran, snaps) ==
    [st |-> IF ret.ok THEN sender_send(st, ret.val) ELSE st,
     req |-> IF ret.ok THEN Some([id |-> ret.val.id, method |-> "answered"]) ELSE None,
     ran |-> ran, snaps |-> snaps]

\* lines 286-290: the response, if there is one, is sent and the request is taken
RequestDispatcher_respond(st, ret, ran, snaps) ==
    [st |-> IF ret.ok THEN sender_send(st, ret.val) ELSE st,
     req |-> None, ran |-> ran, snaps |-> snaps]

RequestDispatcher_on_sync_mut(d, METHOD) ==
    IF d.req # None /\ Unwrap(d.req).method = METHOD
    THEN Bind(serde_from_value(Unwrap(d.req).params), LAMBDA params :
            IF params.ok
            THEN Bind(sync_mut_handler(METHOD, d.st, params.val), LAMBDA r :
                    RequestDispatcher_respond(r.st, result_to_response(Unwrap(d.req).id, r.ret),
                                              Some(Returned(r.ret)), d.snaps))
            ELSE RequestDispatcher_respond(
                    d.st,
                    Ok(Response_new_err(Unwrap(d.req).id, "InvalidParams", to_string(params.err))),
                    None, d.snaps))
    ELSE d

\* inp is the handler's run: what the analysis answers (ana), or a panic
RequestDispatcher_on(d, METHOD, inp) ==
    IF d.req # None /\ Unwrap(d.req).method = METHOD
    THEN Bind(serde_from_value(Unwrap(d.req).params), LAMBDA params :
            IF params.ok
            THEN Bind(IF inp.panic # None
                      THEN Panicked(Unwrap(inp.panic).location, Unwrap(inp.panic).payload)
                      ELSE Returned(feature_handler(METHOD, State_snapshot(d.st).vfs,
                                                    params.val, inp.ana)),
                      LAMBDA run :
                        RequestDispatcher_respond(
                            d.st,
                            result_to_response(Unwrap(d.req).id, with_catch_unwind(METHOD, run)),
                            Some(run), d.snaps + 1))
            ELSE RequestDispatcher_respond(
                    d.st,
                    Ok(Response_new_err(Unwrap(d.req).id, "InvalidParams", to_string(params.err))),
                    None, d.snaps))
    ELSE d

\* finish with the leftover request dropped
RequestDispatcher_finish_silent(d) == d

RequestDispatcher_finish(d) ==
    IF d.req # None
    THEN [d EXCEPT !.st = sender_send(@,
                        Response_new_err(Unwrap(d.req).id, "MethodNotFound", <<>>))]
    ELSE d

\* lines 111-125: the chain of handlers
request_handlers(st, req, inp) ==
         LET d0 == RequestDispatcher(st, req)
             d1 == RequestDispatcher_on_sync_mut(d0, "shutdown")
             d2 == RequestDispatcher_on(d1, "textDocument/definition", inp)
             d3 == RequestDispatcher_on(d2, "textDocument/references", inp)
             d4 == RequestDispatcher_on(d3, "textDocument/completion", inp)
             d5 == RequestDispatcher_on(d4, "textDocument/selectionRange", inp)
             d6 == RequestDispatcher_on(d5, "textDocument/prepareRename", inp)
             d7 == RequestDispatcher_on(d6, "textDocument/rename", inp)
             d8 == RequestDispatcher_on(d7, "textDocument/semanticTokens/full", inp)
             d9 == RequestDispatcher_on(d8, "textDocument/semanticTokens/range", inp)
             d10 == RequestDispatcher_on(d9, "textDocument/hover", inp)
         IN RequestDispatcher_finish(d10)

\* the dispatch with the test of is_shutdown left out
dispatch_request_unguarded(st, req, inp) == request_handlers(st, req, inp)

dispatch_request(st, req, inp) ==
    IF st.is_shutdown
    THEN [st |-> sender_send(st, Response_new_err(req.id, "InvalidRequest",
                                                  <<"Shutdown already requested.">>)),
          req |-> None, ran |-> None, snaps |-> 0]
    ELSE request_handlers(st, req, inp)

(****************** NotificationDispatcher **********************************)
\* (state, the notification not yet taken); status is "ok" while the chain goes
\* on, "err" once a handler's error left it through `?`, "panic" once it panicked
NotificationDispatcher(st, notif) == [st |-> st, notif |-> Some(notif), status |-> "ok"]

did_open(st, params, dres) ==
    set_vfs_file_content([st EXCEPT !.opened_files = @ \cup {params.uri}],
                         params.uri, params.text, dres)

\* the handler of didClose with the text of the closed file cleared
did_close_clears_text(st, params) ==
    set_vfs_file_content([st EXCEPT !.opened_files = @ \ {params.uri}],
                         params.uri, <<>>, Ok(<<>>))

did_close(st, params) ==
    [st |-> [st EXCEPT !.opened_files = @ \ {params.uri}], ret |-> Ok(None)]

\* the loop over the content changes ending at the first entry not applied
RECURSIVE apply_content_changes_until_failure(_, _, _, _)
apply_content_changes_until_failure(v, file, content_changes, i) ==
    IF i > Len(content_changes) THEN v
    ELSE Bind(IF content_changes[i].range # None
              THEN convert_from_range(v, file, Unwrap(content_changes[i].range))
              ELSE Err(Error("NoRange")),
              LAMBDA range :
                IF ~range.ok THEN v
                ELSE Bind(Vfs_change_file_content(v, file, range.val, content_changes[i].text),
                          LAMBDA changed :
                            IF ~changed.ok THEN v
                            ELSE apply_content_changes_until_failure(
                                    changed.val, file, content_changes, i + 1)))

RECURSIVE apply_content_changes(_, _, _, _)
apply_content_changes(v, file, content_changes, i) ==
    IF i > Len(content_changes) THEN v
    ELSE Bind(IF content_changes[i].range # None
              THEN convert_from_range(v, file, Unwrap(content_changes[i].range))
              ELSE Err(Error("NoRange")),
              LAMBDA range :
                IF ~range.ok THEN apply_content_changes(v, file, content_changes, i + 1)
                ELSE Bind(Vfs_change_file_content(v, file, range.val, content_changes[i].text),
                          LAMBDA changed :
                            apply_content_changes(IF changed.ok THEN changed.val ELSE v,
                                                  file, content_changes, i + 1)))

did_change(st, params, dres) ==
    Bind(Vfs_file_for_uri(st.vfs, params.uri), LAMBDA file :
        IF file.ok
        THEN [st |-> apply_vfs_change(
                         [st EXCEPT !.vfs = apply_content_changes(@, file.val,
                                                                 params.content_changes, 1)],
                         dres),
              ret |-> Ok(None)]
        ELSE [st |-> st, ret |-> Ok(None)])

did_change_configuration(st, params) ==
    [st |-> send_request(st, "workspace/configuration",
                         [items |-> <<[scope_uri |-> None, section |-> "nil"]>>],
                         "config_callback"),
     ret |-> Ok(None)]

\* the fn(&mut State, N::Params) registered for METHOD; it answers [st, ret]
notification_handler(METHOD, st, params, dres) ==
    CASE METHOD = "textDocument/didOpen" -> did_open(st, params, dres)
      [] METHOD = "textDocument/didClose" -> did_close(st, params)
      [] METHOD = "textDocument/didChange" -> did_change(st, params, dres)
      [] METHOD = "workspace/didChangeConfiguration" -> did_change_configuration(st, params)

\* dres is what Analysis::diagnostics answers if the handler comes to ask
NotificationDispatcher_on_sync_mut(d, METHOD, dres) ==
    IF d.status # "ok" THEN d
    ELSE IF d.notif # None /\ Unwrap(d.notif).method = METHOD
    THEN Bind(serde_from_value(Unwrap(d.notif).params), LAMBDA params :
            IF ~params.ok THEN [d EXCEPT !.notif = None, !.status = "panic"]
            ELSE Bind(notification_handler(METHOD, d.st, params.val, dres), LAMBDA r :
                    [st |-> r.st, notif |-> None,
                     status |-> IF r.ret.ok THEN "ok" ELSE "err"]))
    ELSE d

NotificationDispatcher_finish(d) == d

dispatch_notification(st, notif, dres) ==
    LET d0 == NotificationDispatcher(st, notif)
        d1 == NotificationDispatcher_on_sync_mut(d0, "textDocument/didOpen", dres)
        d2 == NotificationDispatcher_on_sync_mut(d1, "textDocument/didClose", dres)
        d3 == NotificationDispatcher_on_sync_mut(d2, "textDocument/didChange", dres)
        d4 == NotificationDispatcher_on_sync_mut(d3, "workspace/didChangeConfiguration", dres)
    IN NotificationDispatcher_finish(d4)

(****************** inbound messages ****************************************)
Position(line, character) == [line |-> line, character |-> character]
Range(s, e) == [start |-> Position(0, s), end |-> Position(0, e)]
PositionOutside == Position(0, MaxTextLen + 1)

PositionMethods ==
    {"textDocument/definition", "textDocument/references", "textDocument/completion",
     "textDocument/prepareRename", "textDocument/rename", "textDocument/hover"}
FeatureMethods ==
    PositionMethods \cup {"textDocument/selectionRange", "textDocument/semanticTokens/full",
                          "textDocument/semanticTokens/range"}
UnknownMethod == "workspace/symbol"

\* one file of the workspace and one outside of it, a position inside and one outside
FeatureParams(method) ==
    IF method \in PositionMethods
    THEN {[uri |-> "u1", position |-> Position(0, 0)],
          [uri |-> "u1", position |-> PositionOutside],
          [uri |-> OutUri, position |-> Position(0, 0)]}
    ELSE IF method = "textDocument/selectionRange"
    THEN {[uri |-> "u1", positions |-> <<Position(0, 0)>>],
          [uri |-> "u1", positions |-> <<Position(0, MaxTextLen), Position(0, 0)>>],
          [uri |-> "u1", positions |-> <<Position(0, 0), PositionOutside>>],
          [uri |-> OutUri, positions |-> <<Position(0, 0)>>]}
    ELSE IF method = "textDocument/semanticTokens/full"
    THEN {[uri |-> "u1"], [uri |-> OutUri]}
    ELSE {[uri |-> "u1", range |-> Range(0, 0)],
          [uri |-> "u1", range |-> Range(0, MaxTextLen + 1)],
          [uri |-> OutUri, range |-> Range(0, 0)]}

Requests ==
    {Request_new(id, "shutdown", p) : id \in RequestIds, p \in {Decodes(None), Undecodable}}
    \cup UNION {{Request_new(id, m, p) :
                    id \in RequestIds,
                    p \in {Decodes(x) : x \in FeatureParams(m)} \cup {Undecodable}}
                : m \in FeatureMethods}
    \cup {Request_new(id, UnknownMethod, Decodes(None)) : id \in RequestIds}

\* what expand_selection may answer, for each offset: Cancelled, nothing, no
\* range, one range, or three ranges from the smallest to the whole text
ExpandOutcomes ==
    {[pos \in 0..MaxTextLen |-> Err(Cancelled)],
     [pos \in 0..MaxTextLen |-> Ok(None)],
     [pos \in 0..MaxTextLen |-> Ok(Some(<<>>))],
     [pos \in 0..MaxTextLen |-> Ok(Some(<<<<pos, pos>> >>))],
     [pos \in 0..MaxTextLen |-> Ok(Some(<<<<pos, pos>>, <<0, pos>>, <<0, MaxTextLen>> >>))]}

\* what the analysis may answer to the query of a feature
AnaOutcomes(method) ==
    IF method \in {"textDocument/prepareRename", "textDocument/rename"}
    THEN {"some", "rename_err", "cancelled"}
    ELSE IF method = "textDocument/selectionRange"
    THEN ExpandOutcomes
    ELSE IF method \in {"textDocument/semanticTokens/full",
                        "textDocument/semanticTokens/range"}
    THEN {"some", "cancelled"}
    ELSE {"some", "none", "cancelled"}

HandlerInputs(method) ==
    {[ana |-> a, panic |-> None] : a \in AnaOutcomes(method)}
    \cup {[ana |-> CHOOSE a \in AnaOutcomes(method) : TRUE,
           panic |-> Some([location |-> l, payload |-> "index out of bounds"])]
            : l \in PanicLocations}

\* a full-document replacement (no range), an insertion at the start, and the
\* removal of the first character, whose range is out of bounds in an empty text
ContentChanges ==
    {[range |-> None, text |-> <<"a">>],
     [range |-> Some(Range(0, 0)), text |-> <<"a">>],
     [range |-> Some(Range(0, 1)), text |-> <<>>]}
ContentChangeLists == UNION {[1..n -> ContentChanges] : n \in 0..MaxChanges}

Notifications ==
    {Notification_new("exit", Decodes(None))}
    \cup {Notification_new("textDocument/didOpen", Decodes([uri |-> u, text |-> t]))
            : u \in Uris, t \in Texts}
    \cup {Notification_new("textDocument/didClose", Decodes([uri |-> u])) : u \in Uris}
    \cup {Notification_new("textDocument/didChange",
                           Decodes([uri |-> u, content_changes |-> cs]))
            : u \in Uris, cs \in ContentChangeLists}
    \cup {Notification_new("workspace/didChangeConfiguration", Decodes(JsonObject))}
    \cup {Notification_new(m, Undecodable)
            : m \in {"textDocument/didOpen", "textDocument/didClose",
                     "textDocument/didChange", "workspace/didChangeConfiguration"}}
    \cup {Notification_new(m, Decodes(None)) : m \in {"$/cancelRequest", "initialized"}}

\* the answers of a client to workspace/configuration
Responses ==
    {[type |-> "Response", id |-> id, result |-> r, error |-> None]
        : id \in 0..MaxOutgoing,
          r \in {None, Some(JsonNull), Some(JsonArray(<<>>)), Some(JsonArray(<<JsonObject>>)),
                 Some(JsonObject)}}
    \cup {[type |-> "Response", id |-> id, result |-> None,
           error |-> Some([code |-> "InternalError", message |-> <<"no configuration">>])]
            : id \in 0..MaxOutgoing}

DiagList(n) == [i \in 1..n |-> i]
DiagCounts == {0, 1, MAX_DIAGNOSTICS_CNT, MaxDiags}
DiagResults == {Ok(DiagList(n)) : n \in DiagCounts} \cup {Err(Cancelled)}

(****************** State::run **********************************************)
NoLast ==
    [msg |-> [type |-> "None"], ran |-> None, snaps |-> 0, diag |-> <<>>,
     pub |-> <<>>, applied |-> <<>>, called |-> <<>>, inp |-> None]

Init ==
    /\ pc = "start"
    /\ is_shutdown = State_new.is_shutdown
    /\ vfs = State_new.vfs
    /\ opened_files = State_new.opened_files
    /\ host = State_new.host
    /\ req_queue = State_new.req_queue
    /\ config = State_new.config
    /\ sent = <<>>
    /\ last = NoLast
    /\ unit = None
    /\ call = None

\* the fields of st become the state, its messages are on the channel
Commit(st) ==
    /\ is_shutdown' = st.is_shutdown
    /\ vfs' = st.vfs
    /\ opened_files' = st.opened_files
    /\ host' = st.host
    /\ req_queue' = st.req_queue
    /\ config' = st.config
    /\ sent' = st.out
    /\ UNCHANGED <<unit, call>>

\* the bounds of the model: texts and outgoing request ids stay within them
WithinBounds(st) ==
    /\ \A i \in 1..Len(st.vfs.files) : Len(st.vfs.files[i]) <= MaxTextLen
    /\ st.req_queue.next_id <= MaxOutgoing

\* the *.nix files the walk of the workspace root finds, in the order found
Discoveries ==
    {<<>>}
    \cup {<<[uri |-> u, text |-> t]>> : u \in InUris, t \in Texts}
    \cup {e \in {<<[uri |-> u1, text |-> t1], [uri |-> u2, text |-> t2]>>
                    : u1 \in InUris, u2 \in InUris, t1 \in Texts, t2 \in Texts}
            : e[1].uri # e[2].uri}

RECURSIVE discover(_, _, _)
discover(v, entries, i) ==
    IF i > Len(entries) THEN v
    ELSE discover(Vfs_set_path_content(v, Vfs_uri_to_vpath(entries[i].uri).val,
                                       entries[i].text),
                  entries, i + 1)

\* lines 56-78; workspace_root is None, or Some with the entries of the walk
RunStart ==
    /\ pc = "start"
    /\ \E workspace_root \in {None} \cup {Some(e) : e \in Discoveries} :
        Commit(IF workspace_root # None
               THEN apply_vfs_change(
                        [StateNow EXCEPT !.vfs = discover(@, Unwrap(workspace_root), 1)],
                        Ok(<<>>))
               ELSE StateNow)
    /\ pc' = "loop"
    /\ last' = NoLast

\* Message::Request
\* the request has been dispatched: d is the dispatcher as finish leaves it
Dispatched(req, inp, d) ==
    /\ Commit(d.st)
    /\ last' = [NoLast EXCEPT !.msg = req, !.ran = d.ran, !.snaps = d.snaps,
                              !.inp = IF d.ran # None THEN Some(inp) ELSE None]

RecvRequest ==
    /\ pc = "loop"
    /\ \E req \in Requests :
        \E inp \in IF req.method \in FeatureMethods THEN HandlerInputs(req.method)
                   ELSE {[ana |-> "some", panic |-> None]} :
            Dispatched(req, inp, dispatch_request(StateNow, req, inp))
    /\ pc' = "sent"

\* whether handling notif asks the analysis for diagnostics
QueriesDiagnostics(notif) ==
    Bind(dispatch_notification(StateNow, notif, Ok(<<>>)), LAMBDA d :
        \E i \in DOMAIN d.st.diag : d.st.diag[i] # None)

\* Message::Notification
\* the notification has been dispatched: d is the dispatcher as it ended
Notified(notif, d) ==
    /\ WithinBounds(d.st)
    /\ Commit(d.st)
    /\ last' = [NoLast EXCEPT !.msg = notif, !.diag = d.st.diag, !.pub = d.st.pub,
                              !.applied = d.st.applied]
    /\ pc' = CASE d.status = "ok" -> "sent"
               [] d.status = "err" -> "err"
               [] OTHER -> "panic"

RecvNotification ==
    /\ pc = "loop"
    /\ \E notif \in Notifications :
        IF notif.method = "exit"
        THEN /\ pc' = "ok"
             /\ last' = [NoLast EXCEPT !.msg = notif]
             /\ UNCHANGED <<is_shutdown, vfs, opened_files, host, req_queue, config, sent>>
             /\ UNCHANGED <<unit, call>>
        ELSE \E dres \in IF QueriesDiagnostics(notif) THEN DiagResults ELSE {Ok(<<>>)} :
                Notified(notif, dispatch_notification(StateNow, notif, dres))

\* Message::Response
\* lines 90-92: the callback registered for the id of resp, if one is pending,
\* is taken off the queue and run
complete(st, resp) ==
    IF resp.id \in DOMAIN st.req_queue.pending
    THEN config_callback([st EXCEPT !.req_queue.pending = Del(@, resp.id)], resp)
    ELSE st

\* the response has been handled: st is the state it left
Answered(resp, st) ==
    /\ Commit(st)
    /\ last' = [NoLast EXCEPT !.msg = resp, !.called = st.called]

RecvResponse ==
    /\ pc = "loop"
    /\ \E resp \in Responses : Answered(resp, complete(StateNow, resp))
    /\ pc' = "sent"

\* the receiver's iterator ends: line 97
ChannelClosed ==
    /\ pc = "loop"
    /\ pc' = "err"
    /\ last' = NoLast
    /\ UNCHANGED <<is_shutdown, vfs, opened_files, host, req_queue, config, sent>>
    /\ UNCHANGED <<unit, call>>

\* the loop takes its next turn; the messages sent have left the channel
LoopNext ==
    /\ pc = "sent"
    /\ pc' = "loop"
    /\ sent' = <<>>
    /\ last' = NoLast
    /\ UNCHANGED <<is_shutdown, vfs, opened_files, host, req_queue, config>>
    /\ UNCHANGED <<unit, call>>

Next ==
    \/ RunStart
    \/ RecvRequest
    \/ RecvNotification
    \/ RecvResponse
    \/ ChannelClosed
    \/ LoopNext

Spec == Init /\ [][Next]_vars

(****************** crates/ide as a library *********************************)
\* The specifications below apply the operations of crates/ide/src/base.rs
\* and diagnostic.rs to a value of their own (unit); the server stays as new.
LibInit(u) ==
    /\ pc = "lib"
    /\ is_shutdown = State_new.is_shutdown
    /\ vfs = State_new.vfs
    /\ opened_files = State_new.opened_files
    /\ host = State_new.host
    /\ req_queue = State_new.req_queue
    /\ config = State_new.config
    /\ sent = <<>>
    /\ last = NoLast
    /\ unit = u
    /\ call = None

server == <<pc, is_shutdown, vfs, opened_files, host, req_queue, config, sent, last>>

(****************** FileSet under insert and remove_file ********************)
\* the largest FileId
MaxFileId == 2
FileIds == 0..MaxFileId
FilePaths == {<<"/", "a">>, <<"/", "b">>, <<"/", "a", "/", "b">>}

FileSetInit == LibInit(EmptyFileSet)

InsertFile ==
    /\ \E file \in FileIds, path \in FilePaths :
        /\ unit' = FileSet_insert(unit, file, path)
        /\ call' = Some([op |-> "insert", file |-> file, path |-> path])
    /\ UNCHANGED server

RemoveFile ==
    /\ \E file \in FileIds :
        /\ unit' = FileSet_remove_file(unit, file)
        /\ call' = Some([op |-> "remove_file", file |-> file])
    /\ UNCHANGED server

FileSetNext ==
    \/ InsertFile
    \/ RemoveFile

FileSetSpec == FileSetInit /\ [][FileSetNext]_vars

(****************** VfsPath under its operations ****************************)
\* longest string given to VfsPath::new, and longest path built
MaxPathLen == 4
\* longest segment given to push_segment
MaxSegmentLen == 1
PathChars == {"/", "a"}
Strings(n) == UNION {[1..k -> PathChars] : k \in 0..n}
\* the paths VfsPath::new makes
NewPaths == {Unwrap(VfsPath_new(s)) : s \in {x \in Strings(MaxPathLen) : VfsPath_new(x) # None}}

VfsPathInit == LibInit(VfsPath_root)

PathNew ==
    /\ \E s \in Strings(MaxPathLen) :
        /\ unit' = IF VfsPath_new(s) # None THEN Unwrap(VfsPath_new(s)) ELSE unit
        /\ call' = Some([op |-> "new", s |-> s, ret |-> VfsPath_new(s)])
    /\ UNCHANGED server

PathPush ==
    /\ \E relative \in NewPaths :
        /\ Len(VfsPath_push(unit, relative)) <= MaxPathLen
        /\ unit' = VfsPath_push(unit, relative)
        /\ call' = Some([op |-> "push", relative |-> relative])
    /\ UNCHANGED server

PathPushSegment ==
    /\ \E segment \in Strings(MaxSegmentLen) :
        /\ Len(VfsPath_push_segment(unit, segment).self) <= MaxPathLen
        /\ unit' = VfsPath_push_segment(unit, segment).self
        /\ call' = Some([op |-> "push_segment", segment |-> segment,
                         ret |-> VfsPath_push_segment(unit, segment).ret])
    /\ UNCHANGED server

PathPop ==
    /\ unit' = VfsPath_pop(unit).self
    /\ call' = Some([op |-> "pop", ret |-> VfsPath_pop(unit).ret])
    /\ UNCHANGED server

VfsPathNext ==
    \/ PathNew
    \/ PathPush
    \/ PathPushSegment
    \/ PathPop

VfsPathSpec == VfsPathInit /\ [][VfsPathNext]_vars

(****************** Diagnostic and its aspects ******************************)
\* most notes on one diagnostic
MaxNotes == 1
TextRanges == {<<0, 0>>, <<0, 1>>}
NoteMessages == {"defined here"}

DiagnosticInit ==
    \E range \in TextRanges, kind \in DiagnosticKinds : LibInit(Diagnostic_new(range, kind))

DiagnosticWithNote ==
    /\ Len(unit.notes) < MaxNotes
    /\ \E range \in TextRanges, message \in NoteMessages :
        /\ unit' = Diagnostic_with_note(unit, [file_id |-> 0, range |-> range], message)
        /\ call' = Some([op |-> "with_note"])
    /\ UNCHANGED server

DiagnosticAspects ==
    /\ call' = Some([op |-> "aspects",
                     severity |-> Diagnostic_severity(unit),
                     is_unnecessary |-> Diagnostic_is_unnecessary(unit),
                     is_deprecated |-> Diagnostic_is_deprecated(unit)])
    /\ UNCHANGED unit
    /\ UNCHANGED server

DiagnosticNext ==
    \/ DiagnosticWithNote
    \/ DiagnosticAspects

DiagnosticSpec == DiagnosticInit /\ [][DiagnosticNext]_vars

(****************** Change applied to a database ****************************)
\* most entries in the file_changes of one Change
MaxFileChanges == 2
\* most input writes the database has seen
MaxRevision == 4
ChangedFiles == {0, 1}
RootOf(files) ==
    SourceRoot_new_local([files |-> [p \in {<<"/", f>> : f \in files} |-> p[2]],
                          paths |-> [f \in files |-> <<"/", f>>]], None)
ChangeRoots ==
    {None, Some(<<>>), Some(<<RootOf({0})>>), Some(<<RootOf({1})>>),
     Some(<<RootOf({0}), RootOf({1})>>), Some(<<RootOf({0}), RootOf({0})>>)}
Changes ==
    {[roots |-> r, file_changes |-> fc] :
        r \in ChangeRoots,
        fc \in UNION {[1..n -> ChangedFiles \X Texts] : n \in 0..MaxFileChanges}}

\* the database: its inputs, and the revision it is at
ChangeInit == LibInit([db |-> EmptyDb, revision |-> 0])

ChangeApply ==
    /\ \E change \in Changes :
        /\ unit.revision + Change_apply_writes(change) <= MaxRevision
        /\ unit' = [db |-> Change_apply(change, unit.db),
                    revision |-> unit.revision + Change_apply_writes(change)]
        /\ call' = Some([op |-> "apply", change |-> change,
                         is_empty |-> Change_is_empty(change)])
    /\ UNCHANGED server

ChangeNext ==
    \/ ChangeApply

ChangeSpec == ChangeInit /\ [][ChangeNext]_vars

(****************** the guards of the server thread *************************)
\* State::run on its one thread, seen as the lock guards and analysis
\* snapshots it takes and drops, statement by statement.
\* most messages handled
MaxHandled == 2

\* std::sync::RwLock: the guards out
RwLock_new == [writers |-> 0, readers |-> 0]

\* one step of the thread: a guard requested or dropped, a snapshot taken or
\* dropped, or AnalysisHost::apply_change
Op(op, on) == [op |-> op, on |-> on]

\* a guard that is a temporary of its statement
Temporary(kind, on) == <<Op(kind, on), Op("drop_" \o kind, on)>>

\* state.rs 231-265: `vfs`, `snap` and `opened_files` live to the end of the
\* function and are dropped in the reverse order of their declaration
apply_vfs_change_guards ==
    <<Op("write", "vfs"), Op("apply_change", "host"), Op("snapshot", "host"),
      Op("read", "opened_files"),
      Op("drop_read", "opened_files"), Op("drop_snapshot", "host"), Op("drop_write", "vfs")>>

\* state.rs 225-229; ok is whether set_uri_content succeeded
set_vfs_file_content_guards(ok) ==
    Temporary("write", "vfs") \o (IF ok THEN apply_vfs_change_guards ELSE <<>>)

\* state.rs 56-78
run_start_guards(workspace_root) ==
    IF workspace_root
    THEN <<Op("write", "vfs"), Op("drop_write", "vfs")>> \o apply_vfs_change_guards
    ELSE <<>>

\* state.rs 130-135
did_open_guards(ok) == Temporary("write", "opened_files") \o set_vfs_file_content_guards(ok)

\* state.rs 136-143
did_close_guards == Temporary("write", "opened_files")

\* didChange with the guard on the Vfs still held when apply_vfs_change is called
did_change_guards_held(known) ==
    <<Op("write", "vfs")>>
    \o (IF known THEN apply_vfs_change_guards ELSE <<>>)
    \o <<Op("drop_write", "vfs")>>

\* state.rs 144-159; known is whether file_for_uri found the file
did_change_guards(known) ==
    <<Op("write", "vfs")>>
    \o (IF known THEN <<Op("drop_write", "vfs")>> \o apply_vfs_change_guards
        ELSE <<Op("drop_write", "vfs")>>)

\* handler.rs: the statements of a handler that call snap.vfs(), in order;
\* "temp" where the guard is a temporary of the statement, "let" where it is
\* bound to a variable of the function
handler_vfs_statements(method) ==
    CASE method = "textDocument/definition" -> <<"temp", "let">>
      [] method = "textDocument/references" -> <<"temp", "let">>
      [] method = "textDocument/completion" -> <<"temp">>
      [] method = "textDocument/selectionRange" -> <<"temp", "temp">>
      [] method = "textDocument/prepareRename" -> <<"temp">>
      [] method = "textDocument/rename" -> <<"temp", "temp">>
      [] method = "textDocument/semanticTokens/full" -> <<"temp", "temp">>
      [] method = "textDocument/semanticTokens/range" -> <<"temp", "temp">>
      [] method = "textDocument/hover" -> <<"temp">>

\* the guards of a handler that leaves (by return, `?` or panic) once it has
\* run statements[i..n]; held counts the guards bound to variables so far
RECURSIVE handler_guards(_, _, _, _)
handler_guards(statements, i, n, held) ==
    IF i > n THEN [k \in 1..held |-> Op("drop_read", "vfs")]
    ELSE IF statements[i] = "temp"
    THEN Temporary("read", "vfs") \o handler_guards(statements, i + 1, n, held)
    ELSE <<Op("read", "vfs")>> \o handler_guards(statements, i + 1, n, held + 1)

\* state.rs 293-315: the snapshot is moved into the handler, and dropped with it
RequestDispatcher_on_guards(method, n) ==
    <<Op("snapshot", "host")>>
    \o handler_guards(handler_vfs_statements(method), 1, n, 0)
    \o <<Op("drop_snapshot", "host")>>

\* what handling one message does: a request of a feature whose handler
\* leaves after some number of its statements, any other request, a
\* notification, a response
GuardPaths ==
    UNION {{[msg |-> m, ops |-> RequestDispatcher_on_guards(m, n)]
                : n \in 0..Len(handler_vfs_statements(m))} : m \in FeatureMethods}
    \cup {[msg |-> "shutdown", ops |-> <<>>]}
    \cup {[msg |-> "textDocument/didOpen", ops |-> did_open_guards(ok)] : ok \in BOOLEAN}
    \cup {[msg |-> "textDocument/didClose", ops |-> did_close_guards]}
    \cup {[msg |-> "textDocument/didChange", ops |-> did_change_guards(known)]
            : known \in BOOLEAN}
    \cup {[msg |-> "workspace/didChangeConfiguration", ops |-> <<>>]}
    \cup {[msg |-> "response", ops |-> <<>>]}

GuardsInit ==
    LibInit([msg |-> "new", prev |-> "new", todo |-> <<>>, vfs |-> RwLock_new,
             opened_files |-> RwLock_new, snapshots |-> 0, applied |-> 0,
             blocked |-> FALSE, handled |-> 0])

\* the next step of the thread
NextOp == unit.todo[1]
Running == pc = "lib" /\ ~unit.blocked /\ unit.todo # <<>>

GuardsRunStart ==
    /\ pc = "lib"
    /\ unit.msg = "new"
    /\ \E workspace_root \in BOOLEAN :
        unit' = [unit EXCEPT !.msg = "start", !.todo = run_start_guards(workspace_root)]
    /\ call' = None
    /\ UNCHANGED server

\* the loop takes the next message once the last one is handled
GuardsReceive ==
    /\ pc = "lib"
    /\ unit.msg # "new"
    /\ unit.todo = <<>>
    /\ ~unit.blocked
    /\ unit.handled < MaxHandled
    /\ \E path \in GuardPaths :
        unit' = [unit EXCEPT !.prev = unit.msg, !.msg = path.msg, !.todo = path.ops,
                             !.handled = @ + 1]
    /\ call' = None
    /\ UNCHANGED server

\* RwLock::write waits while any guard is out, RwLock::read while a write
\* guard is out; the thread that holds the guard is the one that waits
GuardsAcquire ==
    /\ Running
    /\ NextOp.op \in {"write", "read"}
    /\ unit' =
         IF NextOp.op = "write"
         THEN IF unit[NextOp.on].writers > 0 \/ unit[NextOp.on].readers > 0
              THEN [unit EXCEPT !.blocked = TRUE]
              ELSE [unit EXCEPT ![NextOp.on].writers = 1, !.todo = Tail(@)]
         ELSE IF unit[NextOp.on].writers > 0
              THEN [unit EXCEPT !.blocked = TRUE]
              ELSE [unit EXCEPT ![NextOp.on].readers = @ + 1, !.todo = Tail(@)]
    /\ call' = Some(NextOp)
    /\ UNCHANGED server

GuardsDrop ==
    /\ Running
    /\ NextOp.op \in {"drop_write", "drop_read"}
    /\ unit' =
         IF NextOp.op = "drop_write"
         THEN [unit EXCEPT ![NextOp.on].writers = 0, !.todo = Tail(@)]
         ELSE [unit EXCEPT ![NextOp.on].readers = @ - 1, !.todo = Tail(@)]
    /\ call' = Some(NextOp)
    /\ UNCHANGED server

GuardsSnapshot ==
    /\ Running
    /\ NextOp.op \in {"snapshot", "drop_snapshot"}
    /\ unit' =
         IF NextOp.op = "snapshot"
         THEN [unit EXCEPT !.snapshots = @ + 1, !.todo = Tail(@)]
         ELSE [unit EXCEPT !.snapshots = @ - 1, !.todo = Tail(@)]
    /\ call' = Some(NextOp)
    /\ UNCHANGED server

\* AnalysisHost::apply_change installs the change once every snapshot is dropped
GuardsApplyChange ==
    /\ Running
    /\ NextOp.op = "apply_change"
    /\ unit' =
         IF unit.snapshots > 0
         THEN [unit EXCEPT !.blocked = TRUE]
         ELSE [unit EXCEPT !.applied = @ + 1, !.todo = Tail(@)]
    /\ call' = Some(NextOp)
    /\ UNCHANGED server

GuardsNext ==
    \/ GuardsRunStart
    \/ GuardsReceive
    \/ GuardsAcquire
    \/ GuardsDrop
    \/ GuardsSnapshot
    \/ GuardsApplyChange

GuardsSpec == GuardsInit /\ [][GuardsNext]_vars

(****************** properties **********************************************)
core == <<is_shutdown, vfs, opened_files, host, req_queue>>

\* this step handled an inbound message of the given type
Handles(type) == pc = "loop" /\ last'.msg.type = type

IsErrorResponse(msg, id, code) ==
    /\ msg.type = "Response"
    /\ msg.id = id
    /\ msg.result = None
    /\ msg.error # None
    /\ Unwrap(msg.error).code = code

RegisteredMethods == {"shutdown"} \cup FeatureMethods

\* C1: once is_shutdown is set it stays set, and every request handled from
\* then on is answered with one error response carrying its id, without a
\* handler run or a snapshot taken, and leaves the state as it was.
C1_ShutdownRejectsRequests ==
    [][is_shutdown =>
        /\ is_shutdown'
        /\ Handles("Request") =>
            /\ Len(sent') = 1
            /\ IsErrorResponse(sent'[1], last'.msg.id, "InvalidRequest")
            /\ last'.ran = None
            /\ last'.snaps = 0
            /\ UNCHANGED core]_vars

C1_Witness ==
    /\ pc = "sent"
    /\ is_shutdown
    /\ last.msg.type = "Request"
    /\ last.msg.method \in RegisteredMethods
    /\ last.msg.params.decodes
    /\ IsErrorResponse(sent[1], last.msg.id, "InvalidRequest")

\* C2: after shutdown a notification other than exit changes neither the
\* VFS, the opened files nor the analysis inputs and sends nothing.
C2_NotificationsIgnoredAfterShutdown ==
    [][(is_shutdown /\ Handles("Notification") /\ last'.msg.method # "exit") =>
        /\ UNCHANGED <<vfs, opened_files, host>>
        /\ sent' = <<>>]_vars

\* the handler of the last request ended with the Cancelled marker
EndedCancelled ==
    /\ last.ran # None
    /\ ~Unwrap(last.ran).panicked
    /\ ~Unwrap(last.ran).ret.ok
    /\ Unwrap(last.ran).ret.err.kind = "Cancelled"

\* C3: a request whose handler ends with Cancelled is answered with a
\* response for its id.
C3_CancelledIsAnswered ==
    (pc = "sent" /\ last.msg.type = "Request" /\ EndedCancelled) =>
        \E i \in DOMAIN sent : sent[i].type = "Response" /\ sent[i].id = last.msg.id

\* C4: a panic in a feature handler yields exactly one InternalError response
\* for the request's id whose message names the panic location, leaves the
\* state as before and the loop running, so the next request is dispatched.
C4_PanicBecomesInternalError ==
    [][(Handles("Request") /\ last'.ran # None /\ Unwrap(last'.ran).panicked) =>
        /\ last'.msg.method \in FeatureMethods
        /\ Len(sent') = 1
        /\ IsErrorResponse(sent'[1], last'.msg.id, "InternalError")
        /\ \E i \in DOMAIN Unwrap(sent'[1].error).message :
              Unwrap(sent'[1].error).message[i] = Unwrap(last'.ran).location
        /\ UNCHANGED core
        /\ ~is_shutdown'
        /\ pc' = "sent"]_vars

C4_Witness ==
    /\ pc = "sent"
    /\ last.msg.type = "Request"
    /\ last.ran # None
    /\ Unwrap(last.ran).panicked
    /\ IsErrorResponse(sent[1], last.msg.id, "InternalError")

ConversionErrors ==
    {"UriOutsideWorkspace", "FileNotFound", "PositionOutOfBounds", "InvalidRange"}

\* the handler of the last request ended with a failed conversion
EndedConversionError ==
    /\ last.ran # None
    /\ ~Unwrap(last.ran).panicked
    /\ ~Unwrap(last.ran).ret.ok
    /\ Unwrap(last.ran).ret.err.kind \in ConversionErrors

\* C5: a feature request whose URI, file or position fails conversion is
\* answered with a successful null result.
C5_ConversionErrorIsNull ==
    (pc = "sent" /\ last.msg.type = "Request" /\ EndedConversionError) =>
        sent = <<Response_new_ok(last.msg.id, None)>>

\* C6: before shutdown a request of an unregistered method is answered with
\* exactly one MethodNotFound error carrying its id; no handler runs, the
\* state is unchanged and the loop goes on.
C6_UnknownMethodNotFound ==
    [][(~is_shutdown /\ Handles("Request") /\ last'.msg.method \notin RegisteredMethods) =>
        /\ Len(sent') = 1
        /\ IsErrorResponse(sent'[1], last'.msg.id, "MethodNotFound")
        /\ last'.ran = None
        /\ last'.snaps = 0
        /\ UNCHANGED core
        /\ pc' = "sent"]_vars

C6_Witness ==
    /\ pc = "sent"
    /\ ~is_shutdown
    /\ last.msg.type = "Request"
    /\ last.msg.method = UnknownMethod
    /\ IsErrorResponse(sent[1], last.msg.id, "MethodNotFound")

\* C7: a message of a known method with undecodable parameters leaves the
\* state unchanged and the loop running; a request (before shutdown) gets an
\* InvalidParams error without its handler run, a notification is dropped.
C7_UndecodableParamsHarmless ==
    [][((Handles("Request") \/ Handles("Notification")) /\ ~last'.msg.params.decodes) =>
        /\ pc' = "sent"
        /\ UNCHANGED core
        /\ last'.ran = None
        /\ (last'.msg.type = "Request" /\ ~is_shutdown) =>
              (Len(sent') = 1
               /\ IsErrorResponse(sent'[1], last'.msg.id, "InvalidParams"))
        /\ last'.msg.type = "Notification" => sent' = <<>>]_vars

\* C8: a didOpen whose URI the VFS rejects leaves the opened files and the
\* VFS as they were and the loop running.
C8_RejectedDidOpenHasNoEffect ==
    [][(/\ Handles("Notification")
        /\ last'.msg.method = "textDocument/didOpen"
        /\ last'.msg.params.decodes
        /\ ~Vfs_uri_to_vpath(last'.msg.params.val.uri).ok) =>
        /\ pc' = "sent"
        /\ UNCHANGED <<opened_files, vfs>>]_vars

\* C9: run returns Ok exactly when an exit notification arrives after a
\* shutdown request has been handled.
C9_OkOnlyAfterShutdown ==
    pc = "ok" <=>
        (last.msg.type = "Notification" /\ last.msg.method = "exit" /\ is_shutdown)

\* C10: every publishDiagnostics carries at most 128 diagnostics, and when
\* diagnostics(file) returned a list of n, exactly its first min(n, 128)
\* elements in unchanged order.
C10_PublishedDiagnosticsCapped ==
    /\ \A i \in DOMAIN sent :
          (sent[i].type = "Notification"
           /\ sent[i].method = "textDocument/publishDiagnostics") =>
              /\ i \in DOMAIN last.diag
              /\ Len(sent[i].params.diagnostics) <= 128
              /\ (last.diag[i] # None /\ Unwrap(last.diag[i]).ok) =>
                    LET returned == Unwrap(last.diag[i]).val
                        n == Len(returned)
                    IN sent[i].params.diagnostics =
                          [k \in 1..(IF n < 128 THEN n ELSE 128) |->
                              [lsp |-> "Diagnostic", of |-> returned[k]]]

C10_Witness ==
    /\ pc = "sent"
    /\ \E i \in DOMAIN last.diag :
          /\ last.diag[i] # None
          /\ Unwrap(last.diag[i]).ok
          /\ Len(Unwrap(last.diag[i]).val) > 128
          /\ Len(sent[i].params.diagnostics) = 128

\* the entries of a change whose file is opened, as (file, has_text)
OpenedEntries(change) ==
    SelectSeq([j \in 1..Len(change.file_changes) |->
                    <<change.file_changes[j][1], change.file_changes[j][2] # <<>> >>],
              LAMBDA e : Vfs_uri_for_file(vfs, e[1]) \in opened_files)

\* C11: the publishDiagnostics notifications of a didOpen or didChange are
\* one per entry of the one change set it applied whose file is opened, in
\* the order of the entries; each is computed from a snapshot that holds the
\* text the host and the VFS have once the change set is applied, and the
\* last one for a file says whether that text is empty.
C11_DiagnosticsFollowChanges ==
    (pc = "sent" /\ last.msg.type = "Notification") =>
        /\ Len(last.applied) <= 1
        /\ Len(last.pub) > 0 => Len(last.applied) = 1
        /\ Len(last.applied) = 1 =>
              [i \in 1..Len(last.pub) |-> <<last.pub[i].file, last.pub[i].has_text>>]
                  = OpenedEntries(last.applied[1])
        /\ \A i \in DOMAIN last.pub :
              /\ sent[i].type = "Notification"
              /\ sent[i].method = "textDocument/publishDiagnostics"
              /\ sent[i].params.uri = Vfs_uri_for_file(vfs, last.pub[i].file)
              /\ last.pub[i].content = host.file_content[last.pub[i].file]
              /\ last.pub[i].content = Vfs_text_for_file(vfs, last.pub[i].file)
              /\ (\A k \in DOMAIN last.pub : k > i => last.pub[k].file # last.pub[i].file)
                    => last.pub[i].has_text = (last.pub[i].content # <<>>)

C11_Witness ==
    /\ pc = "sent"
    /\ last.msg.type = "Notification"
    /\ last.msg.method = "textDocument/didChange"
    /\ Len(last.pub) = 2
    /\ last.pub[1].has_text
    /\ ~last.pub[2].has_text

\* C12: a didClose removes its URI from the opened files and changes nothing
\* else: the VFS and the analysis inputs keep every text, no change is applied
\* to the host and nothing is sent.
C12_DidCloseOnlyForgetsUri ==
    [][(/\ Handles("Notification")
        /\ last'.msg.method = "textDocument/didClose"
        /\ last'.msg.params.decodes) =>
        /\ opened_files' = opened_files \ {last'.msg.params.val.uri}
        /\ UNCHANGED <<vfs, host, is_shutdown, req_queue, config>>
        /\ last'.applied = <<>>
        /\ sent' = <<>>
        /\ pc' = "sent"]_vars

C12_Witness ==
    /\ pc = "sent"
    /\ last.msg.type = "Notification"
    /\ last.msg.method = "textDocument/didClose"
    /\ last.msg.params.decodes
    /\ last.msg.params.val.uri \notin opened_files
    /\ opened_files # {}
    /\ Vfs_file_for_uri(vfs, last.msg.params.val.uri).ok
    /\ Vfs_text_for_file(vfs, Vfs_file_for_uri(vfs, last.msg.params.val.uri).val) # <<>>
    /\ host.file_content[Vfs_file_for_uri(vfs, last.msg.params.val.uri).val] # <<>>

\* C13: after any inserts and removals the two maps of a FileSet are inverse
\* bijections: every file of the set is the file of its path, and every path
\* that has a file is the path of that file.
C13_FileSetBijection ==
    (pc = "lib" /\ unit # None) =>
        /\ \A f \in DOMAIN unit.paths :
              FileSet_file_for_path(unit, FileSet_path_for_file(unit, f)) = Some(f)
        /\ \A p \in DOMAIN unit.files :
              /\ Unwrap(FileSet_file_for_path(unit, p)) \in DOMAIN unit.paths
              /\ FileSet_path_for_file(unit, Unwrap(FileSet_file_for_path(unit, p))) = p

\* C14: every path reached through root, new, push, push_segment and pop is
\* the empty root, or begins with '/', does not end in '/' and has no "//".
C14_VfsPathNormalized ==
    pc = "lib" =>
        \/ unit = <<>>
        \/ /\ unit[1] = "/"
           /\ unit[Len(unit)] # "/"
           /\ ~\E i \in 1..(Len(unit) - 1) : unit[i] = "/" /\ unit[i + 1] = "/"

\* C15: new(s) is the root for "" and "/", none for any other s that ends in
\* '/' or has "//", and otherwise s with '/' put in front unless s begins
\* with one.
C15_VfsPathNew ==
    (pc = "lib" /\ call # None /\ Unwrap(call).op = "new") =>
        LET s == Unwrap(call).s
            ret == Unwrap(call).ret
        IN IF s = <<>> \/ s = <<"/">> THEN ret = Some(<<>>)
           ELSE IF s[Len(s)] = "/" \/ \E i \in 1..(Len(s) - 1) : s[i] = "/" /\ s[i + 1] = "/"
           THEN ret = None
           ELSE /\ ret = Some(IF s[1] = "/" THEN s ELSE <<"/">> \o s)
                /\ unit = Unwrap(ret)

C15_Witness ==
    /\ pc = "lib"
    /\ call # None
    /\ Unwrap(call).op = "new"
    /\ Unwrap(call).s = <<"a", "/", "a">>
    /\ Unwrap(call).ret = Some(<<"/", "a", "/", "a">>)
    /\ unit = <<"/", "a", "/", "a">>

\* the rows of the specification's table, by the name of the kind
TableSeverity(name) ==
    IF name \in {"InvalidDynamic", "DuplicatedKey", "UndefinedName", "MultipleRoots",
                 "PathTrailingSlash", "PathDuplicatedSlashes", "MultipleNoAssoc"}
    THEN "Error"
    ELSE IF name \in {"MissingToken", "MissingExpr", "MissingElemExpr", "MissingAttr",
                      "MissingParamIdent", "MissingBinding", "NestTooDeep"}
    THEN "IncompleteSyntax"
    ELSE "Warning"

\* C16: severity, unnecessary and deprecated of a diagnostic are the row of
\* the table for its kind, whatever its range and notes.
C16_DiagnosticAspectsByKind ==
    (pc = "lib" /\ call # None /\ Unwrap(call).op = "aspects") =>
        LET name == unit.kind[Min(Len(unit.kind), 2)]
        IN /\ Unwrap(call).severity = TableSeverity(name)
           /\ Unwrap(call).is_unnecessary
                <=> name \in {"EmptyInherit", "UnusedBinding", "UnusedWith", "UnusedRec"}
           /\ Unwrap(call).is_deprecated <=> name \in {"LetAttrset", "UriLiteral"}

C16_Witness ==
    /\ pc = "lib"
    /\ call # None
    /\ Unwrap(call).op = "aspects"
    /\ unit.kind = <<"SyntaxError", "MissingToken", "T![;]">>
    /\ unit.notes # <<>>
    /\ Unwrap(call).severity = "IncompleteSyntax"

\* this step applied a Change to the database
Applies == pc = "lib" /\ call' # None /\ Unwrap(call').op = "apply"

\* C17: is_empty holds exactly for a Change without roots and without file
\* changes, and applying such a Change writes no input and leaves the
\* revision where it was.
C17_EmptyChangeWritesNothing ==
    [][Applies =>
        /\ Unwrap(call').is_empty
              <=> (Unwrap(call').change.roots = None
                   /\ Len(Unwrap(call').change.file_changes) = 0)
        /\ Unwrap(call').is_empty =>
              /\ unit'.db = unit.db
              /\ unit'.revision = unit.revision]_vars

C17_Witness ==
    /\ pc = "lib"
    /\ call # None
    /\ Unwrap(call).op = "apply"
    /\ Unwrap(call).is_empty
    /\ unit.revision > 0
    /\ DOMAIN unit.db.file_content # {}
    /\ DOMAIN unit.db.source_root # {}

\* the last entry of file_changes for file f, 0 if there is none
LastEntry(file_changes, f) ==
    IF \E i \in DOMAIN file_changes : file_changes[i][1] = f
    THEN CHOOSE i \in DOMAIN file_changes :
            /\ file_changes[i][1] = f
            /\ \A j \in DOMAIN file_changes : j > i => file_changes[j][1] # f
    ELSE 0

\* C20: after apply the content of a file is that of its last entry in
\* file_changes, and a file without an entry keeps the content it had (or
\* stays without one); each apply acts on what the one before left.
C20_ApplyWritesInListOrder ==
    [][Applies =>
        \A f \in ChangedFiles :
            LET fc == Unwrap(call').change.file_changes
            IN IF LastEntry(fc, f) # 0
               THEN /\ f \in DOMAIN unit'.db.file_content
                    /\ unit'.db.file_content[f] = fc[LastEntry(fc, f)][2]
               ELSE IF f \in DOMAIN unit.db.file_content
               THEN /\ f \in DOMAIN unit'.db.file_content
                    /\ unit'.db.file_content[f] = unit.db.file_content[f]
               ELSE f \notin DOMAIN unit'.db.file_content]_vars

C20_Witness ==
    /\ pc = "lib"
    /\ call # None
    /\ Unwrap(call).op = "apply"
    /\ Unwrap(call).change.roots # None
    /\ Unwrap(call).change.file_changes = <<<<0, <<"a">> >>, <<0, <<>> >> >>
    /\ unit.db.file_content[0] = <<>>
    /\ 1 \in DOMAIN unit.db.file_content
    /\ unit.db.file_content[1] = <<"a">>

\* C18: whatever the response to workspace/configuration carries, the loop
\* goes on, config, VFS, opened files, analysis inputs and the shutdown flag
\* stay as they were and nothing is sent; the callback runs only for an id
\* that was pending, once, and that id is pending no longer; a response
\* whose id is not pending leaves the queue alone.
C18_ConfigResponseIsHarmless ==
    [][Handles("Response") =>
        /\ pc' = "sent"
        /\ UNCHANGED <<config, vfs, opened_files, host, is_shutdown>>
        /\ sent' = <<>>
        /\ req_queue'.next_id = req_queue.next_id
        /\ IF last'.msg.id \in DOMAIN req_queue.pending
           THEN /\ last'.called = <<last'.msg.id>>
                /\ DOMAIN req_queue'.pending = (DOMAIN req_queue.pending) \ {last'.msg.id}
           ELSE /\ last'.called = <<>>
                /\ UNCHANGED req_queue]_vars

C18_Witness ==
    /\ pc = "sent"
    /\ last.msg.type = "Response"
    /\ last.called = <<last.msg.id>>
    /\ last.msg.result = Some(JsonArray(<<JsonObject>>))
    /\ config = Config_default

\* the ranges of a SelectionRange read from the head through its parents
RECURSIVE ChainRanges(_)
ChainRanges(sr) ==
    <<sr.range>> \o (IF sr.parent = None THEN <<>> ELSE ChainRanges(Unwrap(sr.parent)))

\* the last request was a selectionRange whose handler returned a result
SelectionAnswered ==
    /\ pc = "sent"
    /\ last.msg.type = "Request"
    /\ last.msg.method = "textDocument/selectionRange"
    /\ last.ran # None
    /\ ~Unwrap(last.ran).panicked
    /\ Unwrap(last.ran).ret.ok

\* C19: the result of selectionRange has one chain for each requested
\* position, in their order; read from the head through the parents it holds
\* the ranges expand_selection returned for that position, in the same order,
\* or the empty range at the position when there were none.
C19_SelectionRangeChains ==
    SelectionAnswered =>
        LET positions == last.msg.params.val.positions
            result == Unwrap(Unwrap(sent[1].result))
            expand == Unwrap(last.inp).ana
        IN /\ sent[1].id = last.msg.id
           /\ Len(result) = Len(positions)
           /\ \A k \in DOMAIN positions :
                LET pos == positions[k].character
                    ranges == IF expand[pos].val = None THEN <<>> ELSE Unwrap(expand[pos].val)
                IN /\ Len(ChainRanges(result[k])) = (IF Len(ranges) > 1 THEN Len(ranges) ELSE 1)
                   /\ ChainRanges(result[k]) =
                        IF ranges = <<>> THEN <<Range(pos, pos)>>
                        ELSE [i \in 1..Len(ranges) |-> Range(ranges[i][1], ranges[i][2])]

C19_Witness ==
    /\ SelectionAnswered
    /\ Len(last.msg.params.val.positions) = 2
    /\ Len(ChainRanges(Unwrap(Unwrap(sent[1].result))[1])) = 3
    /\ Unwrap(Unwrap(sent[1].result))[1].range # Unwrap(Unwrap(sent[1].result))[2].range
    /\ Unwrap(Unwrap(Unwrap(sent[1].result))[1].parent).range
            # Unwrap(Unwrap(sent[1].result))[1].range

\* the last message was a notification that published diagnostics
Published == pc = "sent" /\ last.msg.type = "Notification" /\ Len(last.pub) > 0

\* the entries (file, content) of a change whose file is opened
OpenedChanges(change) ==
    SelectSeq(change.file_changes, LAMBDA e : Vfs_uri_for_file(vfs, e[1]) \in opened_files)

\* C21 as stated: a notification for a file whose new content (the text the
\* file has once the change set is applied) is empty carries an empty list
\* and comes without a query of diagnostics(file); a failed query publishes
\* the empty list.
C21_EmptyFilePublishesEmpty ==
    Published =>
        \A i \in DOMAIN last.pub :
            /\ host.file_content[last.pub[i].file] = <<>> =>
                  (sent[i].params.diagnostics = <<>> /\ last.diag[i] = None)
            /\ (last.diag[i] # None /\ ~Unwrap(last.diag[i]).ok) =>
                  sent[i].params.diagnostics = <<>>

\* C21 amended: the notification for an entry of the change set whose
\* content is empty carries an empty list and comes without a query of
\* diagnostics(file); an entry with content queries it, and a failed query
\* publishes the empty list.
C21_EmptyEntryPublishesEmpty ==
    Published =>
        /\ Len(OpenedChanges(last.applied[1])) = Len(last.pub)
        /\ \A i \in DOMAIN last.pub :
            /\ OpenedChanges(last.applied[1])[i][2] = <<>> =>
                  (sent[i].params.diagnostics = <<>> /\ last.diag[i] = None)
            /\ OpenedChanges(last.applied[1])[i][2] # <<>> => last.diag[i] # None
            /\ (last.diag[i] # None /\ ~Unwrap(last.diag[i]).ok) =>
                  sent[i].params.diagnostics = <<>>

C21_Witness ==
    /\ Published
    /\ \E i \in DOMAIN last.pub :
          /\ OpenedChanges(last.applied[1])[i][2] = <<>>
          /\ sent[i].params.diagnostics = <<>>
          /\ last.diag[i] = None
    /\ \E i \in DOMAIN last.pub :
          /\ last.diag[i] # None
          /\ ~Unwrap(last.diag[i]).ok
          /\ sent[i].params.diagnostics = <<>>

\* C22: handling a request sends nothing but responses carrying its id, at
\* most one of them, and exactly one unless its handler ended with Cancelled;
\* the loop then goes on. No other message makes the server send a response.
C22_OneResponsePerRequest ==
    [][/\ Handles("Request") =>
            /\ Len(sent') <= 1
            /\ \A i \in DOMAIN sent' :
                  sent'[i].type = "Response" /\ sent'[i].id = last'.msg.id
            /\ Len(sent') = 1
                  <=> ~(/\ last'.ran # None
                        /\ ~Unwrap(last'.ran).panicked
                        /\ ~Unwrap(last'.ran).ret.ok
                        /\ Unwrap(last'.ran).ret.err.kind = "Cancelled")
            /\ pc' = "sent"
       /\ ~Handles("Request") =>
            \A i \in DOMAIN sent' : sent'[i].type # "Response"]_vars

C22_Witness ==
    /\ pc = "sent"
    /\ last.msg.type = "Request"
    /\ last.msg.method = "textDocument/hover"
    /\ last.ran # None
    /\ ~Unwrap(last.ran).panicked
    /\ Unwrap(last.ran).ret.ok
    /\ sent = <<Response_new_ok(last.msg.id, Unwrap(last.ran).ret.val)>>

\* the Vfs holds no pending change and the analysis holds, for every file of
\* the Vfs and for no other, the text the Vfs holds
VfsApplied(v, h) ==
    /\ v.change = Change_new
    /\ ~v.root_changed
    /\ DOMAIN h.file_content = {i - 1 : i \in 1..Len(v.files)}
    /\ \A i \in 1..Len(v.files) : h.file_content[i - 1] = Vfs_text_for_file(v, i - 1)

\* C23: whenever the loop is about to dispatch a message (and when it has just
\* dispatched one), the Vfs has no pending change and a snapshot taken of the
\* state sees in its analysis the file contents of the Vfs it converts with.
C23_NoPendingChange ==
    pc \in {"loop", "sent"} =>
        VfsApplied(State_snapshot(StateNow).vfs, State_snapshot(StateNow).analysis)

C23_Witness ==
    /\ pc = "sent"
    /\ last.msg.type = "Notification"
    /\ last.msg.method = "textDocument/didChange"
    /\ Len(last.applied) = 1
    /\ last.applied[1].file_changes # <<>>
    /\ \E i \in 1..Len(vfs.files) : vfs.files[i] # <<>>
    /\ VfsApplied(vfs, host)

\* the URIs of the publishDiagnostics notifications among msgs, in order
PublishedUris(msgs) ==
    Bind(SelectSeq(msgs, LAMBDA m : /\ m.type = "Notification"
                                    /\ m.method = "textDocument/publishDiagnostics"),
         LAMBDA pubs : [i \in 1..Len(pubs) |-> pubs[i].params.uri])

\* the URIs of the changed-file entries of change, in order, as v names them
ChangedUris(v, change) ==
    [j \in 1..Len(change.file_changes) |-> Vfs_uri_for_file(v, change.file_changes[j][1])]

\* C24: the publishDiagnostics notifications a step sends are, in order, one
\* for each changed-file entry of the change set it applied whose URI is in
\* the opened files when the change is applied, so none is sent for a changed
\* file that is not opened, none by a step that applied no change set, and
\* none by startup, discovery included.
C24_PublishedOnlyForOpened ==
    [][/\ pc = "start" => sent' = <<>>
       /\ Len(last'.applied) = 0 => PublishedUris(sent') = <<>>
       /\ Len(last'.applied) = 1 =>
            PublishedUris(sent')
                = SelectSeq(ChangedUris(vfs', last'.applied[1]),
                            LAMBDA uri : uri \in opened_files')
       /\ Len(last'.applied) <= 1]_vars

C24_Witness ==
    /\ pc = "sent"
    /\ last.msg.type = "Notification"
    /\ last.msg.method = "textDocument/didChange"
    /\ Len(last.applied) = 1
    /\ Len(last.applied[1].file_changes) > 0
    /\ opened_files # {}
    /\ \A j \in DOMAIN ChangedUris(vfs, last.applied[1]) :
            ChangedUris(vfs, last.applied[1])[j] \notin opened_files
    /\ sent = <<>>

Fits(c, text) ==
    /\ c.range # None
    /\ Unwrap(c.range).start.line = 0
    /\ Unwrap(c.range).end.line = 0
    /\ Unwrap(c.range).start.character <= Unwrap(c.range).end.character
    /\ Unwrap(c.range).end.character <= Len(text)

\* text with the range of c replaced by the text of c
Edited(c, text) ==
    SubSeq(text, 1, Unwrap(c.range).start.character)
        \o c.text
        \o SubSeq(text, Unwrap(c.range).end.character + 1, Len(text))

\* the texts a file goes through when changes[i..] are applied to text one
\* after the other, an entry that does not fit being passed over
RECURSIVE EditedTexts(_, _, _)
EditedTexts(text, changes, i) ==
    IF i > Len(changes) THEN <<>>
    ELSE IF Fits(changes[i], text)
    THEN <<Edited(changes[i], text)>> \o EditedTexts(Edited(changes[i], text), changes, i + 1)
    ELSE EditedTexts(text, changes, i + 1)

\* C26: a didChange for a file the Vfs knows applies its entries one after the
\* other in the order given, passing over an entry that has no range or whose
\* range does not convert; the notification succeeds, one change set is applied
\* after all entries, holding one entry for each edit made, and no other file
\* is touched. A didChange for a URI the Vfs does not know changes nothing,
\* applies nothing and sends nothing.
C26_DidChangeAppliesInOrder ==
    [][(/\ Handles("Notification")
        /\ last'.msg.method = "textDocument/didChange"
        /\ last'.msg.params.decodes) =>
          Bind(Vfs_file_for_uri(vfs, last'.msg.params.val.uri), LAMBDA file :
            IF file.ok
            THEN Bind(EditedTexts(Vfs_text_for_file(vfs, file.val),
                                  last'.msg.params.val.content_changes, 1),
                      LAMBDA edits :
                        /\ pc' = "sent"
                        /\ Len(last'.applied) = 1
                        /\ last'.applied[1].roots = None
                        /\ last'.applied[1].file_changes
                              = [k \in 1..Len(edits) |-> <<file.val, edits[k]>>]
                        /\ Vfs_text_for_file(vfs', file.val)
                              = IF edits = <<>> THEN Vfs_text_for_file(vfs, file.val)
                                ELSE edits[Len(edits)]
                        /\ host'.file_content[file.val] = Vfs_text_for_file(vfs', file.val)
                        /\ Len(vfs'.files) = Len(vfs.files)
                        /\ \A f \in 1..Len(vfs.files) :
                              f # file.val + 1 => vfs'.files[f] = vfs.files[f])
            ELSE /\ pc' = "sent"
                 /\ UNCHANGED core
                 /\ sent' = <<>>
                 /\ last'.applied = <<>>)]_vars

C26_Witness ==
    /\ pc = "sent"
    /\ last.msg.type = "Notification"
    /\ last.msg.method = "textDocument/didChange"
    /\ last.msg.params.decodes
    /\ \E i, j \in DOMAIN last.msg.params.val.content_changes :
          /\ i < j
          /\ last.msg.params.val.content_changes[i].range = None
          /\ last.msg.params.val.content_changes[j].range # None
    /\ Len(last.applied) = 1
    /\ Len(last.applied[1].file_changes) = 1
    /\ last.applied[1].file_changes[1][2] # <<>>

\* C27: the thread never waits on a lock it holds itself or on a snapshot it
\* keeps alive: no guard is requested on the Vfs or the opened files while a
\* conflicting guard on it is out, apply_change is never called while an
\* analysis snapshot is alive, and once a message is handled every guard and
\* every snapshot taken for it has been dropped.
C27_NeverBlocksOnLock ==
    pc = "lib" =>
        /\ ~unit.blocked
        /\ unit.vfs.writers > 0 => unit.vfs.readers = 0
        /\ unit.opened_files.writers > 0 => unit.opened_files.readers = 0
        /\ unit.todo = <<>> =>
              /\ unit.vfs = RwLock_new
              /\ unit.opened_files = RwLock_new
              /\ unit.snapshots = 0

C27_Witness ==
    /\ pc = "lib"
    /\ unit.prev = "textDocument/definition"
    /\ unit.msg = "textDocument/didChange"
    /\ call = Some(Op("apply_change", "host"))
    /\ unit.applied > 0
    /\ unit.vfs.writers = 1
    /\ unit.snapshots = 0
    /\ ~unit.blocked

====
